---- MODULE Spec2Model ----
(***************************************************************************)
(* Model of the doakes telemetry server: the health-check gate             *)
(* (healthcheck.Handler), the readiness watcher (healthCheckWaiter), the   *)
(* HTTP listener wrapper (http.Server) and the supervisor                  *)
(* (server.TelemetryServer).                                               *)
(*                                                                         *)
(* Every action is one critical section or one shared read/write of the    *)
(* Go code; goroutines interleave between them.  The clock is a discrete   *)
(* counter that may advance between any two steps.  A panic ends the       *)
(* process: no action is enabled afterwards.                               *)
(***************************************************************************)
EXTENDS Integers, Sequences, FiniteSets, TLC

(***************************************************************************)
(* Bounds of the model.                                                    *)
(***************************************************************************)
NumThreads == 2      \* caller goroutines issuing Start / Stop
MaxStarts == 2       \* Start calls that get past the running guard
MaxWatched == 1      \* the same, where the watchers run against the clock
MaxTime == 2         \* last time at which the clock advances unobserved
NumRequests == 2     \* concurrent /_hc requests
NumNames == 2        \* distinct check names
NumVersions == 2     \* distinct probes registered under a name
MaxEnables == 2      \* Enable calls that are counted (further calls count as this many)

Threads == 1..NumThreads
Watchers == 1..MaxStarts
Requests == 1..NumRequests
Names == 1..NumNames

\* Configured timeouts and poll intervals (ticks of the model clock).
Configs == {[timeout |-> 1, pollInterval |-> 1], [timeout |-> 1, pollInterval |-> 2],
            [timeout |-> 2, pollInterval |-> 1]}

\* Listen addresses a caller may pass, as strings of characters.
WildcardAddr == <<":", "0">>
FixedAddr == <<":", "8", "0">>
ListenAddrs == {WildcardAddr, FixedAddr}
EmptyString == << >>

Nil == 0

\* A probe (CheckFunction): which function it is, and whether it returns nil.
Probes == [ver : 1..NumVersions, ok : BOOLEAN]

\* No entry under a name of the map h.checks.
NoCheck == [ver |-> 0, ok |-> TRUE]

\* The responses writeResponse sends.
NotEnabled == [status |-> 503, body |-> "not enabled"]
Unhealthy == [status |-> 503, body |-> "unhealthy"]
Ok == [status |-> 200, body |-> "ok"]
NoResponse == [status |-> 0, body |-> ""]

IdleRequest == [pc |-> "idle", todo |-> {}, invoked |-> << >>, resp |-> NoResponse]

(***************************************************************************)
(* State.                                                                  *)
(***************************************************************************)
VARIABLES
    config,             \* TelemetryServerConfig: timeout, pollInterval
    running,            \* TelemetryServer.running
    healthCheckWaiter,  \* TelemetryServer.healthCheckWaiter (Nil or a watcher)
    pc,                 \* per caller: the call in progress and its position
    ret,                \* per caller: result of its last finished call
    wpc,                \* per watcher: position of its goroutine
    deadline,           \* per watcher: local variable deadline
    nextTick,           \* per watcher: time of the next tick of its ticker
    stopped,            \* per watcher: healthCheckWaiter.stopped
    stopChan,           \* per watcher: its stopChan, "open" or "closed"
    lpc,                \* per launch: position of the listener goroutine
    laddr,              \* per launch: address handed to httpServer.Start
    lsnAddr,            \* per launch: address of the net.Listener it bound
    lsnOpen,            \* per launch: whether that socket is open
    listener,           \* http Server.listener (Nil or the launch that bound it)
    inShutdown,         \* net/http Server.inShutdown
    enabled,            \* Handler.enabled
    checks,             \* Handler.checks
    checksReaders,      \* requests holding checksMutex.RLock
    req,                \* per request: position, locals and response
    now,                \* the clock
    panicked,           \* "none", or the goroutine whose panic ended the process
    hist                \* history: counters and observations the claims refer to

supVars == <<running, healthCheckWaiter, pc, ret>>
watchVars == <<wpc, deadline, nextTick, stopped, stopChan>>
lsnVars == <<lpc, laddr, lsnAddr, lsnOpen, listener, inShutdown>>
gateVars == <<enabled, checks, checksReaders, req>>
vars == <<config, supVars, watchVars, lsnVars, gateVars, now, panicked, hist>>

(***************************************************************************)
(* Strings are sequences of characters.                                    *)
(***************************************************************************)
Digits == <<"0", "1", "2", "3", "4", "5", "6", "7", "8", "9">>

\* The port the OS assigns to the g-th socket bound on port 0.
EphemeralPort(g) == <<"4", "9", "1", "5", Digits[g + 1]>>

\* net.Listen("tcp", address).Addr().String(): the wildcard host with the
\* port of the address, or with an OS-assigned port when that port is 0.
ResolveAddr(address, g) ==
    IF address = WildcardAddr
    THEN <<"[", ":", ":", "]", ":">> \o EphemeralPort(g)
    ELSE <<"[", ":", ":", "]">> \o address

(***************************************************************************)
(* Steps of StartWithAddress and Stop, in the order of the code.           *)
(***************************************************************************)
\* Start with the listener goroutine launched before the watcher is started.
StartSteps_ListenerFirst == <<"guard", "launchListener", "startHealthCheckWatcher">>

StartSteps == <<"guard", "startHealthCheckWatcher", "launchListener">>

\* Stop with the listener shut down before the watcher is stopped.
StopSteps_ShutdownFirst ==
    <<"guard", "shutdown", "shutdownReturn", "stopHealthCheckWatcher", "cleanup">>

StopSteps == <<"guard", "stopHealthCheckWatcher", "shutdown", "shutdownReturn", "cleanup">>

\* Results of calls.
NoResult == [op |-> "none", val |-> "none"]
StartNil == [op |-> "Start", val |-> "nil"]
StopNil == [op |-> "Stop", val |-> "nil"]
StopError == [op |-> "Stop", val |-> "error"]

Idle == [op |-> "idle", i |-> 0, g |-> 0, addr |-> EmptyString, did |-> << >>,
         seen |-> {}, sig |-> Nil]

\* The watchers created so far.
Born == {w \in Watchers : wpc[w] # "unborn"}

StepsOf(op) == IF op = "Start" THEN StartSteps ELSE StopSteps

\* The step caller t is about to execute ("none" when it is not in a call).
CurStep(t) ==
    IF pc[t].op = "idle" THEN "none" ELSE StepsOf(pc[t].op)[pc[t].i]

AtStep(t, op, step) == pc[t].op = op /\ CurStep(t) = step

\* Caller t has executed its current step, recorded as ev among the steps its
\* call has done: it moves to the next step, or returns nil after the last.
Advance(t, ev) ==
    IF pc[t].i = Len(StepsOf(pc[t].op))
    THEN /\ pc' = [pc EXCEPT ![t] = Idle]
         /\ ret' = [ret EXCEPT ![t] = IF pc[t].op = "Start" THEN StartNil ELSE StopNil]
    ELSE /\ pc' = [pc EXCEPT ![t].i = @ + 1, ![t].did = Append(@, ev)]
         /\ UNCHANGED ret

\* Caller t returns result r from its call at once.
Return(t, r) ==
    /\ pc' = [pc EXCEPT ![t] = Idle]
    /\ ret' = [ret EXCEPT ![t] = r]

Alive == panicked = "none"

(***************************************************************************)
(* Handler.enabled: its initial value, Enable's write and IsEnabled's read *)
(***************************************************************************)
\* A gate that is born enabled.
InitiallyEnabled_True == TRUE

\* NewHandler leaves the field at its zero value.
InitiallyEnabled == FALSE

\* The flag flipped instead of set.
SetEnabled_Toggled(flag) == ~flag

\* An Enable that leaves the flag as it was.
SetEnabled_Ignored(flag) == flag

\* h.enabled = true
SetEnabled(flag) == TRUE

\* A read that does not see the write of Enable.
IsEnabled_Stale == FALSE

\* Handler.IsEnabled (and TelemetryServer.IsHealthCheckEnabled): return
\* h.enabled, under enabledMutex.RLock.
IsEnabled == enabled

(***************************************************************************)
(* Initial state: server.New, healthcheck.NewHandler, http.NewServer.      *)
(***************************************************************************)
Init ==
    /\ config \in Configs
    /\ running = FALSE
    /\ healthCheckWaiter = Nil
    /\ pc = [t \in Threads |-> Idle]
    /\ ret = [t \in Threads |-> NoResult]
    /\ wpc = [w \in Watchers |-> "unborn"]
    /\ deadline = [w \in Watchers |-> -1]
    /\ nextTick = [w \in Watchers |-> -1]
    /\ stopped = [w \in Watchers |-> FALSE]
    /\ stopChan = [w \in Watchers |-> "open"]
    /\ lpc = [g \in Watchers |-> "unborn"]
    /\ laddr = [g \in Watchers |-> EmptyString]
    /\ lsnAddr = [g \in Watchers |-> EmptyString]
    /\ lsnOpen = [g \in Watchers |-> FALSE]
    /\ listener = Nil
    /\ inShutdown = FALSE
    /\ enabled = InitiallyEnabled
    /\ checks = [n \in Names |-> NoCheck]
    /\ checksReaders = {}
    /\ req = [r \in Requests |-> IdleRequest]
    /\ now = 0
    /\ panicked = "none"
    /\ hist = [startWork |-> 0, stopWork |-> 0, stopCalls |-> 0, shutdowns |-> 0,
               cleanups |-> 0, timely |-> {}, beforeRead |-> {}, afterStop |-> {},
               lateTick |-> {}, shutdownErrs |-> 0,
               enableCalls |-> 0, latest |-> [n \in Names |-> NoCheck]]

(***************************************************************************)
(* TelemetryServer.StartWithAddress                                        *)
(***************************************************************************)
\* The guard left out: every call goes on.
StartIsNoOp_Never(isRunning) == FALSE

\* if s.running { return nil }
StartIsNoOp(isRunning) == isRunning

\* Lines 111-118: under s.mutex, return nil when already running, else set
\* the flag.  The launch gets the next index g.
StartGuard(t, address, limit) ==
    /\ Alive
    /\ pc[t].op = "idle"
    /\ IF StartIsNoOp(running)
       THEN /\ ret' = [ret EXCEPT ![t] = StartNil]
            /\ UNCHANGED <<pc, running, hist>>
       ELSE /\ hist.startWork < limit
            /\ running' = TRUE
            /\ hist' = [hist EXCEPT !.startWork = @ + 1]
            /\ pc' = [pc EXCEPT ![t] = [op |-> "Start", i |-> 2,
                                        g |-> hist.startWork + 1, addr |-> address,
                                        did |-> <<"guard">>, seen |-> {}, sig |-> Nil]]
            /\ ret' = [ret EXCEPT ![t] = NoResult]
    /\ UNCHANGED <<config, healthCheckWaiter, watchVars, lsnVars, gateVars, now, panicked>>

\* startHealthCheckWatcher: newHealthCheckWaiter, assign the field, start()
\* (go w.waitForHealthCheckEnabled()).
StartWatcher(t) ==
    /\ Alive
    /\ AtStep(t, "Start", "startHealthCheckWatcher")
    /\ healthCheckWaiter' = pc[t].g
    /\ wpc' = [wpc EXCEPT ![pc[t].g] = "init"]
    /\ Advance(t, "startHealthCheckWatcher")
    /\ UNCHANGED <<config, running, deadline, nextTick, stopped, stopChan, lsnVars,
                   gateVars, now, panicked, hist>>

\* go func() { err := s.httpServer.Start(address) ... }()
StartListener(t) ==
    /\ Alive
    /\ AtStep(t, "Start", "launchListener")
    /\ lpc' = [lpc EXCEPT ![pc[t].g] = "listen"]
    /\ laddr' = [laddr EXCEPT ![pc[t].g] = pc[t].addr]
    /\ Advance(t, "launchListener")
    /\ UNCHANGED <<config, running, healthCheckWaiter, watchVars, lsnAddr, lsnOpen,
                   listener, inShutdown, gateVars, now, panicked, hist>>

(***************************************************************************)
(* TelemetryServer.Stop                                                    *)
(***************************************************************************)
\* The guard left out: every call goes on.
StopIsNoOp_Never(isRunning) == FALSE

\* if !s.running { return nil }
StopIsNoOp(isRunning) == ~isRunning

\* Lines 138-144: under s.mutex, return nil when not running, else clear the
\* flag.
StopGuard(t) ==
    /\ Alive
    /\ pc[t].op = "idle"
    /\ IF StopIsNoOp(running)
       THEN /\ ret' = [ret EXCEPT ![t] = StopNil]
            /\ UNCHANGED <<pc, running, hist>>
       ELSE /\ running' = FALSE
            /\ hist' = [hist EXCEPT !.stopWork = @ + 1]
            /\ pc' = [pc EXCEPT ![t] = [op |-> "Stop", i |-> 2, g |-> 0,
                                        addr |-> EmptyString, did |-> <<"guard">>,
                                        seen |-> Born, sig |-> Nil]]
            /\ ret' = [ret EXCEPT ![t] = NoResult]
    /\ UNCHANGED <<config, healthCheckWaiter, watchVars, lsnVars, gateVars, now, panicked>>

\* The guard left out: every call closes the channel.
StopIsRepeated_Never(isStopped) == FALSE

\* if w.stopped { return }
StopIsRepeated(isStopped) == isStopped

\* healthCheckWaiter.stop, under w.mutex: a repeated call returns, the first
\* sets stopped and closes stopChan.  Closing a closed channel panics.
WaiterStop(w) ==
    IF StopIsRepeated(stopped[w])
    THEN UNCHANGED <<stopped, stopChan, panicked>>
    ELSE /\ stopped' = [stopped EXCEPT ![w] = TRUE]
         /\ stopChan' = [stopChan EXCEPT ![w] = "closed"]
         /\ panicked' = IF stopChan[w] = "closed" THEN "stop" ELSE panicked

\* stopHealthCheckWatcher: if s.healthCheckWaiter != nil { stop() }
StopWatcher(t) ==
    /\ Alive
    /\ AtStep(t, "Stop", "stopHealthCheckWatcher")
    /\ IF healthCheckWaiter # Nil
       THEN /\ WaiterStop(healthCheckWaiter)
            /\ hist' = [hist EXCEPT !.stopCalls = @ + 1]
       ELSE UNCHANGED <<stopped, stopChan, panicked, hist>>
    /\ pc' = [pc EXCEPT ![t].i = @ + 1, ![t].did = Append(@, "stopHealthCheckWatcher"),
                        ![t].sig = healthCheckWaiter]
    /\ UNCHANGED <<config, running, healthCheckWaiter, wpc, deadline, nextTick,
                   lsnVars, gateVars, now, ret>>

\* httpServer.Shutdown begins: net/http marks the server as shutting down
\* and closes the listeners its serve loops track.
Shutdown(t) ==
    /\ Alive
    /\ AtStep(t, "Stop", "shutdown")
    /\ inShutdown' = TRUE
    /\ lsnOpen' = [g \in Watchers |-> IF lpc[g] = "serving" THEN FALSE ELSE lsnOpen[g]]
    /\ hist' = [hist EXCEPT !.shutdowns = @ + 1]
    /\ Advance(t, "shutdown")
    /\ UNCHANGED <<config, running, healthCheckWaiter, watchVars, lpc, laddr, lsnAddr,
                   listener, gateVars, now, panicked>>

\* What Shutdown(ctx) can return: nil, or the context's error when
\* connections of a serve loop outlive defaultShutdownTimeout.
ShutdownResults ==
    {"nil"} \cup
    (IF \E g \in Watchers : lpc[g] \in {"serving", "closed"} THEN {"timeout"} ELSE {})

\* The error of Shutdown dropped: Stop carries on as after a clean shutdown.
ShutdownFailed_Ignored(err) == FALSE

\* err != nil
ShutdownFailed(err) == err # "nil"

\* if err := s.httpServer.Shutdown(); err != nil { return err }
\* The history counts the errors Shutdown returned.
ShutdownReturn(t) ==
    /\ Alive
    /\ AtStep(t, "Stop", "shutdownReturn")
    /\ \E err \in ShutdownResults :
         /\ IF ShutdownFailed(err)
            THEN Return(t, StopError)
            ELSE Advance(t, "shutdownReturn")
         /\ hist' = [hist EXCEPT
                        !.afterStop = IF ShutdownFailed(err) THEN @ \cup pc[t].seen ELSE @,
                        !.shutdownErrs = IF err # "nil" THEN @ + 1 ELSE @]
    /\ UNCHANGED <<config, running, healthCheckWaiter, watchVars, lsnVars, gateVars,
                   now, panicked>>

\* s.metricsProvider.Cleanup()
Cleanup(t) ==
    /\ Alive
    /\ AtStep(t, "Stop", "cleanup")
    /\ hist' = [hist EXCEPT !.cleanups = @ + 1,
                             !.afterStop = IF pc[t].i = Len(StopSteps)
                                           THEN @ \cup pc[t].seen ELSE @]
    /\ Advance(t, "cleanup")
    /\ UNCHANGED <<config, running, healthCheckWaiter, watchVars, lsnVars, gateVars,
                   now, panicked>>

(***************************************************************************)
(* healthCheckWaiter.waitForHealthCheckEnabled (one goroutine per watcher) *)
(***************************************************************************)
\* deadline := time.Now().Add(w.timeout)
DeadlineFrom(start, timeout) == start + timeout

\* A ticker that leaves out every other tick.
TickAfter_Skipping(t0, t) ==
    t0 + config.pollInterval * (((t - t0) \div config.pollInterval) + 2)

\* The first tick of the ticker after time t: ticks come every pollInterval
\* from the ticker's creation at t0, and ticks the receiver was too slow
\* for are dropped.
TickAfter(t0, t) == t0 + config.pollInterval * (((t - t0) \div config.pollInterval) + 1)

\* The comparison made inclusive: a tick at the deadline itself escalates.
After_OrEqual(t, d) == t >= d

\* time.Now().After(deadline)
After(t, d) == t > d

\* The goroutine returns with outcome how: defer ticker.Stop() runs and its
\* locals are gone.
Exit(w, how) ==
    /\ wpc' = [wpc EXCEPT ![w] = how]
    /\ deadline' = [deadline EXCEPT ![w] = -1]
    /\ nextTick' = [nextTick EXCEPT ![w] = -1]

\* Lines 56-58: compute the deadline and create the ticker.
WatcherInit(w) ==
    /\ Alive
    /\ wpc[w] = "init"
    /\ deadline' = [deadline EXCEPT ![w] = DeadlineFrom(now, config.timeout)]
    /\ nextTick' = [nextTick EXCEPT ![w] = now + config.pollInterval]
    /\ wpc' = [wpc EXCEPT ![w] = "select"]
    /\ UNCHANGED <<config, supVars, stopped, stopChan, lsnVars, gateVars, now, panicked,
                   hist>>

\* case <-w.stopChan: return
WatcherStopCase(w) ==
    /\ Alive
    /\ wpc[w] = "select"
    /\ stopChan[w] = "closed"
    /\ Exit(w, "exitStopped")
    /\ UNCHANGED <<config, supVars, stopped, stopChan, lsnVars, gateVars, now, panicked,
                   hist>>

\* The deadline is tested before the gate is read.
TickChecks_DeadlineFirst == <<"checkRunning", "checkDeadline", "checkEnabled">>

\* The tests of one tick, lines 67-80, in the order the code makes them.
TickChecks == <<"checkRunning", "checkEnabled", "checkDeadline">>

\* Where a tick goes on when test c did not end it: the next test, or back to
\* the select when c was the last one.
NextCheck(c) ==
    LET i == CHOOSE k \in 1..Len(TickChecks) : TickChecks[k] = c
    IN  IF i = Len(TickChecks) THEN "select" ELSE TickChecks[i + 1]

\* A ticker that never delivers a tick.
TickDue_Never(t, next) == FALSE

\* ticker.C holds a tick at time t when the next tick was due at next.
TickDue(t, next) == t >= next

\* case <-ticker.C: a tick is received.  The history notes whether the stop
\* channel was closed already, when the select could have taken that case.
WatcherTick(w) ==
    /\ Alive
    /\ wpc[w] = "select"
    /\ TickDue(now, nextTick[w])
    /\ nextTick' = [nextTick EXCEPT ![w] = TickAfter(@, now)]
    /\ wpc' = [wpc EXCEPT ![w] = TickChecks[1]]
    /\ hist' = [hist EXCEPT !.lateTick = IF stopChan[w] = "closed"
                                         THEN @ \cup {w} ELSE @ \ {w}]
    /\ UNCHANGED <<config, supVars, deadline, stopped, stopChan, lsnVars, gateVars,
                   now, panicked>>

\* The history of the tick in hand ends when the watcher leaves its tests.
TickEnds(w) ==
    hist' = IF wpc'[w] \in {"checkRunning", "checkEnabled", "checkDeadline"}
            THEN hist
            ELSE [hist EXCEPT !.lateTick = @ \ {w}]

\* The test the wrong way round: the watcher gives up while the server runs.
ServerGone_Inverted(isRunning) == isRunning

\* !w.server.IsRunning()
ServerGone(isRunning) == ~isRunning

\* if !w.server.IsRunning() { return }
WatcherCheckRunning(w) ==
    /\ Alive
    /\ wpc[w] = "checkRunning"
    /\ IF ServerGone(running)
       THEN Exit(w, "exitNotRunning")
       ELSE /\ wpc' = [wpc EXCEPT ![w] = NextCheck("checkRunning")]
            /\ UNCHANGED <<deadline, nextTick>>
    /\ TickEnds(w)
    /\ UNCHANGED <<config, supVars, stopped, stopChan, lsnVars, gateVars, now, panicked>>

\* if w.server.IsHealthCheckEnabled() { return }
WatcherCheckEnabled(w) ==
    /\ Alive
    /\ wpc[w] = "checkEnabled"
    /\ IF IsEnabled
       THEN Exit(w, "exitSatisfied")
       ELSE /\ wpc' = [wpc EXCEPT ![w] = NextCheck("checkEnabled")]
            /\ UNCHANGED <<deadline, nextTick>>
    /\ TickEnds(w)
    /\ UNCHANGED <<config, supVars, stopped, stopChan, lsnVars, gateVars, now, panicked>>

\* if time.Now().After(deadline) { panic(msg) }; otherwise keep polling
WatcherCheckDeadline(w) ==
    /\ Alive
    /\ wpc[w] = "checkDeadline"
    /\ IF After(now, deadline[w])
       THEN /\ wpc' = [wpc EXCEPT ![w] = "escalated"]
            /\ panicked' = "watcher"
       ELSE /\ wpc' = [wpc EXCEPT ![w] = NextCheck("checkDeadline")]
            /\ UNCHANGED panicked
    /\ TickEnds(w)
    /\ UNCHANGED <<config, supVars, deadline, nextTick, stopped, stopChan, lsnVars,
                   gateVars, now>>

(***************************************************************************)
(* The goroutine of StartWithAddress running http Server.Start             *)
(***************************************************************************)
\* Whether the port of the address is taken by an open socket of this
\* process (port 0 never is: the OS picks a free one).
PortTaken(address) ==
    /\ address # WildcardAddr
    /\ \E g \in Watchers : lsnOpen[g] /\ lsnAddr[g] = ResolveAddr(address, g)

\* ErrServerClosed not told apart: every error is fatal.
IsFatal_Always(err) == err # "nil"

\* err != nil && !errors.Is(err, http.ErrServerClosed)
IsFatal(err) == err # "nil" /\ err # "ErrServerClosed"

\* httpServer.Start has returned err in the goroutine of launch g: panic(err)
\* when it is fatal, else the goroutine ends in position how.
StartReturned(g, err, how) ==
    IF IsFatal(err)
    THEN /\ lpc' = [lpc EXCEPT ![g] = "panicked"]
         /\ panicked' = "listener"
    ELSE /\ lpc' = [lpc EXCEPT ![g] = how]
         /\ UNCHANGED panicked

\* net.Listen succeeds: s.listener and the address are recorded.
ListenOk(g) ==
    /\ Alive
    /\ lpc[g] = "listen"
    /\ ~PortTaken(laddr[g])
    /\ lsnAddr' = [lsnAddr EXCEPT ![g] = ResolveAddr(laddr[g], g)]
    /\ lsnOpen' = [lsnOpen EXCEPT ![g] = TRUE]
    /\ listener' = g
    /\ lpc' = [lpc EXCEPT ![g] = "serve"]
    /\ UNCHANGED <<config, supVars, watchVars, laddr, inShutdown, gateVars, now,
                   panicked, hist>>

\* net.Listen fails (the port is taken by this or another process): Start
\* returns the error and the goroutine panics with it.
ListenFail(g) ==
    /\ Alive
    /\ lpc[g] = "listen"
    /\ StartReturned(g, "listen", "ended")
    /\ UNCHANGED <<config, supVars, watchVars, laddr, lsnAddr, lsnOpen, listener,
                   inShutdown, gateVars, now, hist>>

\* httpServer.Serve(listener): after Shutdown it closes the listener and
\* returns ErrServerClosed at once; otherwise the accept loop runs.
Serve(g) ==
    /\ Alive
    /\ lpc[g] = "serve"
    /\ IF inShutdown
       THEN /\ lsnOpen' = [lsnOpen EXCEPT ![g] = FALSE]
            /\ StartReturned(g, "ErrServerClosed", "refused")
       ELSE /\ lpc' = [lpc EXCEPT ![g] = "serving"]
            /\ UNCHANGED <<lsnOpen, panicked>>
    /\ UNCHANGED <<config, supVars, watchVars, laddr, lsnAddr, listener, inShutdown,
                   gateVars, now, hist>>

\* The accept loop ends with ErrServerClosed after Shutdown: the goroutine
\* returns without panic.
ServeClosed(g) ==
    /\ Alive
    /\ lpc[g] = "serving"
    /\ inShutdown
    /\ StartReturned(g, "ErrServerClosed", "closed")
    /\ UNCHANGED <<config, supVars, watchVars, laddr, lsnAddr, lsnOpen, listener,
                   inShutdown, gateVars, now, hist>>

\* The accept loop ends with another error: panic(err).
ServeFail(g) ==
    /\ Alive
    /\ lpc[g] = "serving"
    /\ ~inShutdown
    /\ lsnOpen' = [lsnOpen EXCEPT ![g] = FALSE]
    /\ StartReturned(g, "accept", "ended")
    /\ UNCHANGED <<config, supVars, watchVars, laddr, lsnAddr, listener, inShutdown,
                   gateVars, now, hist>>

(***************************************************************************)
(* Server.ActualAddress, TelemetryServer.GetRunningAddress/GetRunningPort  *)
(***************************************************************************)
\* The configured address reported while nothing is bound.
ActualAddress_Configured == IF listener = Nil THEN FixedAddr ELSE lsnAddr[listener]

\* if s.listener == nil { return "" }; return s.listener.Addr().String()
ActualAddress == IF listener = Nil THEN EmptyString ELSE lsnAddr[listener]

GetRunningAddress == ActualAddress

\* The first c taken for the last.
LastIndex_First(str, c) ==
    LET at == {i \in 1..Len(str) : str[i] = c}
    IN  IF at = {} THEN 0 ELSE CHOOSE i \in at : \A j \in at : i <= j

\* The index of the last c in string str, 0 when there is none.
LastIndex(str, c) ==
    LET at == {i \in 1..Len(str) : str[i] = c}
    IN  IF at = {} THEN 0 ELSE CHOOSE i \in at : \A j \in at : j <= i

\* net.SplitHostPort: the port is what follows the last colon; a host in
\* brackets must end right before that colon, a bare host has no colon.
SplitHostPort(hostport) ==
    LET i == LastIndex(hostport, ":")
        e == LastIndex(hostport, "]")
        bad == [ok |-> FALSE, host |-> EmptyString, port |-> EmptyString]
    IN  IF i = 0 THEN bad
        ELSE IF hostport[1] = "["
             THEN IF e = 0 \/ e + 1 # i THEN bad
                  ELSE [ok |-> TRUE, host |-> SubSeq(hostport, 2, e - 1),
                        port |-> SubSeq(hostport, i + 1, Len(hostport))]
             ELSE IF LastIndex(SubSeq(hostport, 1, i - 1), ":") # 0 THEN bad
                  ELSE [ok |-> TRUE, host |-> SubSeq(hostport, 1, i - 1),
                        port |-> SubSeq(hostport, i + 1, Len(hostport))]

DigitValue(c) == (CHOOSE k \in 1..10 : Digits[k] = c) - 1

IsDigit(c) == \E k \in 1..10 : Digits[k] = c

RECURSIVE DecimalValue(_)
DecimalValue(str) ==
    IF str = << >> THEN 0
    ELSE 10 * DecimalValue(SubSeq(str, 1, Len(str) - 1)) + DigitValue(str[Len(str)])

\* strconv.Atoi on an unsigned decimal string.
Atoi(str) ==
    IF str # << >> /\ \A i \in 1..Len(str) : IsDigit(str[i])
    THEN [ok |-> TRUE, n |-> DecimalValue(str)]
    ELSE [ok |-> FALSE, n |-> 0]

GetRunningPort ==
    LET addr == ActualAddress
    IN  IF addr = EmptyString THEN 0
        ELSE LET hp == SplitHostPort(addr)
             IN  IF ~hp.ok THEN 0
                 ELSE LET a == Atoi(hp.port)
                      IN  IF ~a.ok THEN 0 ELSE a.n

(***************************************************************************)
(* TelemetryServer.EnableHealthCheck -> Handler.Enable                     *)
(***************************************************************************)
\* The watchers whose deadline has not passed (a watcher that has not
\* computed its deadline yet will compute a later one).
NotPastDeadline == {w \in Watchers : deadline[w] = -1 \/ now <= deadline[w]}

\* The watchers that have not read the gate in their current tick, or wait
\* for their next tick, or are not started yet.
GateUnread ==
    {w \in Watchers : wpc[w] \in {"unborn", "init", "select", "checkRunning",
                                   "checkEnabled"}}

\* An Enable that starts from an empty registry.
ChecksAfterEnable_Cleared(registry) == [n \in Names |-> NoCheck]

\* Enable assigns h.enabled and nothing else: h.checks is as it was.
ChecksAfterEnable(registry) == registry

\* Handler.Enable, under enabledMutex.Lock.  The history counts the calls
\* up to limit.
EnableCounted(limit) ==
    /\ Alive
    /\ enabled' = SetEnabled(enabled)
    /\ hist' = [hist EXCEPT !.timely = IF enabled THEN @ ELSE NotPastDeadline,
                             !.beforeRead = IF enabled THEN @ ELSE GateUnread,
                             !.enableCalls = IF @ < limit THEN @ + 1 ELSE @]
    /\ checks' = ChecksAfterEnable(checks)
    /\ UNCHANGED <<config, supVars, watchVars, lsnVars, checksReaders, req,
                   now, panicked>>

Enable == EnableCounted(MaxEnables)

(***************************************************************************)
(* healthcheck.Handler: RegisterCheck and ServeHTTP                        *)
(***************************************************************************)
\* A name that is taken keeps its first probe.
Register_KeepFirst(registry, name, checkFn) ==
    IF registry[name] # NoCheck THEN registry ELSE [registry EXCEPT ![name] = checkFn]

\* Registrations dropped once the gate is enabled.
Register_IgnoredOnceEnabled(registry, name, checkFn) ==
    IF enabled THEN registry ELSE [registry EXCEPT ![name] = checkFn]

\* The map replaced by one that holds the new entry only.
Register_LosesOthers(registry, name, checkFn) ==
    [n \in Names |-> IF n = name THEN checkFn ELSE NoCheck]

\* h.checks[name] = checkFn
Register(registry, name, checkFn) == [registry EXCEPT ![name] = checkFn]

\* The map written without the lock.
WriteLockFree_Always(readers) == TRUE

\* h.checksMutex.Lock() is granted when no evaluation holds the read lock.
WriteLockFree(readers) == readers = {}

\* RegisterCheck holds checksMutex.Lock: it waits for the evaluations that
\* hold the read lock.
RegisterCheck(name, checkFn) ==
    /\ Alive
    /\ WriteLockFree(checksReaders)
    /\ checks' = Register(checks, name, checkFn)
    /\ hist' = [hist EXCEPT !.latest[name] = checkFn]
    /\ UNCHANGED <<config, supVars, watchVars, lsnVars, enabled, checksReaders, req,
                   now, panicked>>

\* The flag not consulted.
GateClosed_Never(isEnabled) == FALSE

\* if !h.IsEnabled() { writeResponse(503, "not enabled"); return }
GateClosed(isEnabled) == ~isEnabled

\* ServeHTTP up to the gate: a request arrives and reads the flag.
ServeHTTP(r) ==
    /\ Alive
    /\ req[r].pc = "idle"
    /\ IF GateClosed(IsEnabled)
       THEN req' = [req EXCEPT ![r].pc = "done", ![r].resp = NotEnabled]
       ELSE req' = [req EXCEPT ![r].pc = "lock"]
    /\ UNCHANGED <<config, supVars, watchVars, lsnVars, enabled, checks, checksReaders,
                   now, panicked, hist>>

\* A range that visits one entry of the map only.
Registered_OneOnly(registry) ==
    IF \E n \in Names : registry[n] # NoCheck
    THEN {CHOOSE n \in Names : registry[n] # NoCheck}
    ELSE {}

\* The names the range over h.checks will visit.
Registered(registry) == {n \in Names : registry[n] # NoCheck}

\* runAllChecks: h.checksMutex.RLock(); the range over the map begins.
RunAllChecks(r) ==
    /\ Alive
    /\ req[r].pc = "lock"
    /\ checksReaders' = checksReaders \cup {r}
    /\ req' = [req EXCEPT ![r].pc = "range", ![r].todo = Registered(checks)]
    /\ UNCHANGED <<config, supVars, watchVars, lsnVars, enabled, checks, now, panicked,
                   hist>>

\* The probe's error dropped.
ProbeFails_Ignored(checkFn) == FALSE

\* if err := checkFn(); err != nil { return err }
ProbeFails(checkFn) == ~checkFn.ok

\* The range goes on after a failure, to collect the failures of all probes.
AfterFailure_VisitAll(others) == others

\* return err: of the names not visited yet, others, none is visited.
AfterFailure(others) == {}

\* A response that names the failing check in its body.
FailureResponse_NamesCheck(name, checkFn) ==
    [status |-> 503, body |-> IF name = 1 THEN "unhealthy: 1" ELSE "unhealthy: other"]

\* h.writeResponse(writer, http.StatusServiceUnavailable, "unhealthy"): the
\* name and the error of the failing check go to the log, not to the client.
FailureResponse(name, checkFn) == Unhealthy

\* One iteration of the range, on any name not visited yet (the order of a
\* map range is not fixed): the probe is invoked; its error ends the
\* evaluation with 503 "unhealthy".
InvokeCheck(r) ==
    /\ Alive
    /\ req[r].pc = "range"
    /\ \E n \in req[r].todo :
         IF ProbeFails(checks[n])
         THEN LET rest == AfterFailure(req[r].todo \ {n})
              IN  /\ req' = [req EXCEPT ![r].pc = IF rest = {} THEN "done" ELSE "range",
                                        ![r].todo = rest,
                                        ![r].invoked = Append(@, <<n, checks[n]>>),
                                        ![r].resp = FailureResponse(n, checks[n])]
                  /\ checksReaders' = IF rest = {} THEN checksReaders \ {r}
                                                   ELSE checksReaders
         ELSE /\ req' = [req EXCEPT ![r].todo = @ \ {n},
                                    ![r].invoked = Append(@, <<n, checks[n]>>)]
              /\ UNCHANGED checksReaders
    /\ UNCHANGED <<config, supVars, watchVars, lsnVars, enabled, checks, now, panicked,
                   hist>>

\* The range is over: runAllChecks returns nil and ServeHTTP writes 200 "ok".
AllChecksPassed(r) ==
    /\ Alive
    /\ req[r].pc = "range"
    /\ req[r].todo = {}
    /\ req' = [req EXCEPT ![r].pc = "done", ![r].resp = Ok]
    /\ checksReaders' = checksReaders \ {r}
    /\ UNCHANGED <<config, supVars, watchVars, lsnVars, enabled, checks, now, panicked,
                   hist>>

\* The client has its response; the next request may arrive.
NextRequest(r) ==
    /\ Alive
    /\ req[r].pc = "done"
    /\ req' = [req EXCEPT ![r] = IdleRequest]
    /\ UNCHANGED <<config, supVars, watchVars, lsnVars, enabled, checks, checksReaders,
                   now, panicked, hist>>

(***************************************************************************)
(* The clock                                                               *)
(***************************************************************************)
\* The watchers whose goroutine has not returned.
Live == {w \in Watchers : wpc[w] \in {"init", "select", "checkRunning", "checkEnabled",
                                        "checkDeadline"}}

\* Time passes.  The clock stops at MaxTime once no watcher is waiting for
\* a tick or a deadline any more.
ClockTick ==
    /\ Alive
    /\ \/ now < MaxTime
       \/ \E w \in Live : now < nextTick[w] \/ now <= deadline[w]
    /\ now' = now + 1
    /\ UNCHANGED <<config, supVars, watchVars, lsnVars, gateVars, panicked, hist>>

(***************************************************************************)
(* The server with its watcher and listener                                *)
(***************************************************************************)
Next ==
    \/ \E t \in Threads, a \in ListenAddrs : StartGuard(t, a, MaxWatched)
    \/ \E t \in Threads : StartWatcher(t)
    \/ \E t \in Threads : StartListener(t)
    \/ \E t \in Threads : StopGuard(t)
    \/ \E t \in Threads : StopWatcher(t)
    \/ \E t \in Threads : Shutdown(t)
    \/ \E t \in Threads : ShutdownReturn(t)
    \/ \E t \in Threads : Cleanup(t)
    \/ \E w \in Watchers : WatcherInit(w)
    \/ \E w \in Watchers : WatcherStopCase(w)
    \/ \E w \in Watchers : WatcherTick(w)
    \/ \E w \in Watchers : WatcherCheckRunning(w)
    \/ \E w \in Watchers : WatcherCheckEnabled(w)
    \/ \E w \in Watchers : WatcherCheckDeadline(w)
    \/ \E g \in Watchers : ListenOk(g)
    \/ \E g \in Watchers : ListenFail(g)
    \/ \E g \in Watchers : Serve(g)
    \/ \E g \in Watchers : ServeClosed(g)
    \/ \E g \in Watchers : ServeFail(g)
    \/ EnableCounted(1)
    \/ ClockTick

Spec == Init /\ [][Next]_vars

\* A step of the goroutine of watcher w other than receiving the stop signal.
WatcherRuns(w) ==
    \/ WatcherInit(w)
    \/ WatcherTick(w)
    \/ WatcherCheckRunning(w)
    \/ WatcherCheckEnabled(w)
    \/ WatcherCheckDeadline(w)

\* The Go scheduler runs a runnable goroutine eventually, a ticker delivers
\* its ticks, and time passes.
LiveSpec == Spec /\ WF_vars(ClockTick) /\ \A w \in Watchers : WF_vars(WatcherRuns(w))

(***************************************************************************)
(* The supervisor and its listener through restarts.  The clock stands     *)
(* still: a watcher goroutine starts and observes its stop signal, but no  *)
(* tick is due.                                                            *)
(***************************************************************************)
LifecycleNext ==
    \/ \E t \in Threads, a \in ListenAddrs : StartGuard(t, a, MaxStarts)
    \/ \E t \in Threads : StartWatcher(t)
    \/ \E t \in Threads : StartListener(t)
    \/ \E t \in Threads : StopGuard(t)
    \/ \E t \in Threads : StopWatcher(t)
    \/ \E t \in Threads : Shutdown(t)
    \/ \E t \in Threads : ShutdownReturn(t)
    \/ \E t \in Threads : Cleanup(t)
    \/ \E w \in Watchers : WatcherInit(w)
    \/ \E w \in Watchers : WatcherStopCase(w)
    \/ \E g \in Watchers : ListenOk(g)
    \/ \E g \in Watchers : ListenFail(g)
    \/ \E g \in Watchers : Serve(g)
    \/ \E g \in Watchers : ServeClosed(g)
    \/ \E g \in Watchers : ServeFail(g)

StillConfig == [timeout |-> 1, pollInterval |-> 1]

LifecycleInit == Init /\ config = StillConfig

LifecycleSpec == LifecycleInit /\ [][LifecycleNext]_vars

(***************************************************************************)
(* The health-check gate with its requests, beside one caller that starts  *)
(* and stops the server.  The gate's state is written by RegisterCheck and *)
(* Enable only, so the goroutines of the server are left out here.         *)
(***************************************************************************)
GateNext ==
    \/ \E n \in Names, p \in Probes : RegisterCheck(n, p)
    \/ Enable
    \/ \E r \in Requests : ServeHTTP(r)
    \/ \E r \in Requests : RunAllChecks(r)
    \/ \E r \in Requests : InvokeCheck(r)
    \/ \E r \in Requests : AllChecksPassed(r)
    \/ \E r \in Requests : NextRequest(r)
    \/ \E a \in ListenAddrs : StartGuard(1, a, MaxWatched)
    \/ StartWatcher(1)
    \/ StartListener(1)
    \/ StopGuard(1)
    \/ StopWatcher(1)
    \/ Shutdown(1)
    \/ ShutdownReturn(1)
    \/ Cleanup(1)

GateSpec == LifecycleInit /\ [][GateNext]_vars

(***************************************************************************)
(* One caller that starts and stops the server with its listener           *)
(* goroutine, beside registrations and Enable.                             *)
(***************************************************************************)
AddressNext ==
    \/ \E a \in ListenAddrs : StartGuard(1, a, MaxWatched)
    \/ StartWatcher(1)
    \/ StartListener(1)
    \/ StopGuard(1)
    \/ StopWatcher(1)
    \/ Shutdown(1)
    \/ ShutdownReturn(1)
    \/ Cleanup(1)
    \/ \E g \in Watchers : ListenOk(g)
    \/ \E g \in Watchers : ListenFail(g)
    \/ \E g \in Watchers : Serve(g)
    \/ \E g \in Watchers : ServeClosed(g)
    \/ \E g \in Watchers : ServeFail(g)
    \/ \E n \in Names, p \in Probes : RegisterCheck(n, p)
    \/ EnableCounted(1)

AddressSpec == LifecycleInit /\ [][AddressNext]_vars

(***************************************************************************)
(* The watchers of one caller's Starts and Stops on a machine that is not  *)
(* loaded: a watcher goroutine that can run does so before the clock moves *)
(* on, so a tick is handled at the time it is due and a closed stop        *)
(* channel wakes the select at once.                                       *)
(***************************************************************************)
\* The goroutine of watcher w is runnable: it is between two statements, or
\* one of the cases of its select is ready.
WatcherReady(w) ==
    \/ wpc[w] \in {"init", "checkRunning", "checkEnabled", "checkDeadline"}
    \/ wpc[w] = "select" /\ (now >= nextTick[w] \/ stopChan[w] = "closed")

\* Time passes once no watcher goroutine is runnable.
PromptClockTick ==
    /\ \A w \in Watchers : ~WatcherReady(w)
    /\ ClockTick

PromptNext ==
    \/ \E a \in ListenAddrs : StartGuard(1, a, MaxStarts)
    \/ StartWatcher(1)
    \/ StartListener(1)
    \/ StopGuard(1)
    \/ StopWatcher(1)
    \/ Shutdown(1)
    \/ ShutdownReturn(1)
    \/ Cleanup(1)
    \/ \E w \in Watchers : WatcherInit(w)
    \/ \E w \in Watchers : WatcherStopCase(w)
    \/ \E w \in Watchers : WatcherTick(w)
    \/ \E w \in Watchers : WatcherCheckRunning(w)
    \/ \E w \in Watchers : WatcherCheckEnabled(w)
    \/ \E w \in Watchers : WatcherCheckDeadline(w)
    \/ EnableCounted(1)
    \/ PromptClockTick

PromptSpec == Init /\ [][PromptNext]_vars

(***************************************************************************)
(* Properties                                                              *)
(***************************************************************************)
\* The steps the call of caller t has done.
Did(t) == {pc[t].did[i] : i \in 1..Len(pc[t].did)}

\* Caller t takes a step of its call.
Steps(t) == pc'[t] # pc[t]

\* C1: as long as Enable has not been called, every health request has been
\* answered 503 "not enabled" before any probe was invoked, and none is past
\* the gate.
C1_NotEnabledAnswers503 ==
    ~enabled =>
        \A r \in Requests :
            /\ req[r].pc \in {"idle", "done"}
            /\ req[r].invoked = << >>
            /\ req[r].pc = "done" => req[r].resp = NotEnabled

C1_Witness ==
    /\ ~enabled
    /\ \A r \in Requests : req[r].pc = "done"
    /\ Registered(checks) = Names
    /\ hist.stopWork = 1

\* C2: once Enable has been called an arriving request goes on to the
\* evaluation, and an evaluation ends with 200 "ok" if every probe in the
\* registry returns nil and with 503 "unhealthy" otherwise.
C2_Step ==
    \A r \in Requests :
        /\ (enabled /\ req[r].pc = "idle" /\ req'[r].pc # "idle") => req'[r].pc = "lock"
        /\ (req[r].pc \in {"lock", "range"} /\ req'[r].pc = "done") =>
               req'[r].resp = IF \A n \in Registered(checks) : checks[n].ok
                              THEN Ok ELSE Unhealthy

C2_EnabledAnswersByProbes == [][C2_Step]_vars

C2_Witness ==
    /\ enabled
    /\ \E r \in Requests : req[r].resp = Ok /\ Len(req[r].invoked) = NumNames
    /\ \E r \in Requests : req[r].resp = Unhealthy

\* C3: a watcher that starts while nobody ever enables the gate or stops the
\* server, and whose process is not ended by a listener failure, escalates.
C3_EscalatesWithoutEnable ==
    \A w \in Watchers :
        (wpc[w] = "init") ~>
            (wpc[w] = "escalated" \/ enabled \/ hist.stopWork > 0 \/ panicked = "listener")

C3_Witness ==
    \E w \in Watchers : wpc[w] = "escalated" /\ ~enabled /\ hist.stopWork = 0

\* C4: a watcher never escalates when Enable was called before its deadline
\* had passed.
C4_TimelyEnableNeverEscalates ==
    \A w \in Watchers : wpc[w] = "escalated" => w \notin hist.timely

\* C5: a watcher that existed when Stop was called never escalates once that
\* Stop has returned.
C5_NoEscalationAfterStop ==
    \A w \in hist.afterStop : wpc[w] # "escalated"

\* C6: once a Stop has cleared the running flag, the flag is never set again.
C6_NoRestart == hist.stopWork > 0 => ~running

\* C7: a Start that finds the server running returns nil and changes nothing,
\* whatever its address; the starts that did the work are one more than the
\* stops while running and as many otherwise, and no watcher or listener
\* goroutine exists beyond them.
C7_Inv ==
    /\ hist.startWork = hist.stopWork + (IF running THEN 1 ELSE 0)
    /\ Cardinality(Born) <= hist.startWork
    /\ Cardinality({g \in Watchers : lpc[g] # "unborn"}) <= hist.startWork

C7_Step ==
    \A t \in Threads, a \in ListenAddrs :
        (running /\ StartGuard(t, a, MaxStarts)) =>
            /\ ret'[t] = StartNil
            /\ pc'[t] = Idle
            /\ UNCHANGED <<running, healthCheckWaiter, watchVars, lsnVars, hist>>

C7_StartWhileRunningIsNoOp == []C7_Inv /\ [][C7_Step]_vars

C7_Witness ==
    /\ \A t \in Threads : pc[t] = Idle /\ ret[t] = StartNil
    /\ hist.startWork = 1
    /\ hist.stopWork = 0
    /\ lpc[1] = "serving"

\* C8 (as claimed): Stop's parts run at most once per start, and no Stop
\* call returns an error.
C8_Counts ==
    /\ hist.stopWork <= hist.startWork
    /\ hist.stopCalls <= hist.stopWork
    /\ hist.shutdowns <= hist.stopWork
    /\ hist.cleanups <= hist.shutdowns
    /\ panicked # "stop"

C8_Step ==
    \A t \in Threads :
        /\ (~running /\ StopGuard(t)) =>
               /\ ret'[t] = StopNil
               /\ pc'[t] = Idle
               /\ UNCHANGED <<running, healthCheckWaiter, watchVars, lsnVars, hist,
                              panicked>>
        /\ (Steps(t) /\ ret'[t] = StopError) => AtStep(t, "Stop", "shutdownReturn")

C9_Step ==
    \A t \in Threads :
        /\ (AtStep(t, "Stop", "shutdown") /\ Steps(t)) =>
               /\ {"guard", "stopHealthCheckWatcher"} \subseteq Did(t)
               /\ pc[t].sig # Nil => stopChan[pc[t].sig] = "closed"
               /\ pc[t].sig = Nil => pc[t].seen = {}
        /\ (AtStep(t, "Stop", "cleanup") /\ Steps(t)) =>
               {"guard", "stopHealthCheckWatcher", "shutdown", "shutdownReturn"}
                   \subseteq Did(t)

C9_StopOrder == [][C9_Step]_vars

C9_Witness ==
    /\ hist.cleanups = 1
    /\ hist.stopCalls = 1
    /\ stopChan[1] = "closed"

\* C10: when the Start that launched a listener on port 0 has returned nil,
\* the address is bound and the port is not 0.
C10_BoundWhenStartReturns ==
    (/\ \E t \in Threads : pc[t] = Idle /\ ret[t] = StartNil
     /\ hist.startWork = 1
     /\ hist.stopWork = 0
     /\ laddr[1] = WildcardAddr)
        => (GetRunningAddress # EmptyString /\ GetRunningPort # 0)

\* C11: as long as no Start call has been made, GetRunningAddress returns the
\* empty string and GetRunningPort returns 0, whatever has been registered
\* or enabled and whatever Stop calls were made.
C11_UnboundBeforeStart ==
    hist.startWork = 0 => (GetRunningAddress = EmptyString /\ GetRunningPort = 0)

C11_Witness ==
    /\ hist.startWork = 0
    /\ ret[1] = StopNil
    /\ enabled
    /\ Registered(checks) = Names
    /\ GetRunningPort = 0

\* The listener goroutine of launch g ended because net.Listen failed.
BindFailed(g) == lpc[g] = "panicked" /\ lsnAddr[g] = EmptyString

\* C12: a failure to bind the listen address does not end the process (it
\* is handed to the caller of Start as an error), and no Start has returned
\* nil for it.
C12_BindFailureReturned ==
    \A g \in Watchers :
        BindFailed(g) => (panicked = "none" /\ \A t \in Threads : ret[t] # StartNil)

\* C13: a serve loop that ends while no Shutdown has been begun (its error
\* is not the server-closed error) ends the process with a panic; one that
\* ends after Stop began the Shutdown (with the server-closed error) ends
\* its goroutine without a panic.
C13_Step ==
    \A g \in Watchers :
        (lpc[g] \in {"serve", "serving"} /\ lpc'[g] \notin {"serve", "serving"}) =>
            IF inShutdown
            THEN lpc'[g] \in {"closed", "refused"} /\ panicked' = "none"
            ELSE lpc'[g] = "panicked" /\ panicked' = "listener"

C13_ServeLoopEnd == [][C13_Step]_vars

C13_Witness ==
    /\ lpc[1] = "closed"
    /\ hist.stopWork = 1
    /\ \A t \in Threads : pc[t] = Idle
    /\ panicked = "none"

\* C14: the readiness flag is true only if Enable has been called; a fresh
\* gate, Start, Stop, registrations and health requests leave it false.
C14_EnabledOnlyByEnable == enabled => hist.enableCalls > 0

C14_Witness ==
    /\ enabled
    /\ hist.enableCalls = 1
    /\ hist.stopWork = 1
    /\ Registered(checks) = Names
    /\ \E r \in Requests : req[r].pc = "done"

\* C15: the flag never goes back to false, and a reader that starts once it
\* is set finds it set: a health request gets past the gate and a watcher's
\* check ends the watcher as satisfied.
C15_Step ==
    /\ enabled => enabled'
    /\ \A r \in Requests :
           (enabled /\ req[r].pc = "idle" /\ req'[r].pc # "idle") =>
               (req'[r].pc = "lock" /\ req'[r].resp # NotEnabled)
    /\ \A w \in Watchers :
           (enabled /\ wpc[w] = "checkEnabled" /\ wpc'[w] # "checkEnabled") =>
               wpc'[w] = "exitSatisfied"

C15_EnabledStaysVisible == [][C15_Step]_vars

C15_Witness ==
    /\ enabled
    /\ hist.stopWork = 1
    /\ \A t \in Threads : pc[t] = Idle
    /\ \A r \in Requests : req[r].pc = "lock"

\* C16: every Enable call, the first or a repeated one, leaves the flag true
\* and the registry as it was, so a repeated call changes nothing of the gate.
C16_Step ==
    Enable => (enabled' = TRUE /\ checks' = checks /\ (enabled => UNCHANGED gateVars))

C16_EnableIdempotent == [][C16_Step]_vars

C16_Witness ==
    /\ enabled
    /\ hist.enableCalls = MaxEnables
    /\ Registered(checks) = Names
    /\ \E r \in Requests : req[r].resp = Ok

\* C17: every name maps to the probe of the most recent RegisterCheck call
\* for it, and an evaluation invokes that probe under the name.
C17_Inv == \A n \in Names : checks[n] = hist.latest[n]

C17_Step ==
    \A r \in Requests :
        Len(req'[r].invoked) > Len(req[r].invoked) =>
            LET call == req'[r].invoked[Len(req'[r].invoked)]
            IN  call[2] = hist.latest[call[1]] /\ call[2] # NoCheck

C17_LatestProbeOnly == []C17_Inv /\ [][C17_Step]_vars

\* Request r has invoked probe p under name n.
Invoked(r, n, p) == \E i \in 1..Len(req[r].invoked) : req[r].invoked[i] = <<n, p>>

C17_Witness ==
    /\ enabled
    /\ \E n \in Names, p, q \in Probes :
           /\ p.ver # q.ver
           /\ Invoked(1, n, p)
           /\ Invoked(2, n, q)
           /\ req[2].pc = "range"
           /\ hist.latest[n] = q

\* C18: a registration takes effect whenever it is made, also with the gate
\* enabled and the server started or stopped, and a health request that
\* completes answers by the probes registered last at that time: 503
\* "unhealthy" if one of them fails, 200 "ok" otherwise.
C18_Step ==
    /\ \A n \in Names, p \in Probes : RegisterCheck(n, p) => checks'[n] = p
    /\ \A r \in Requests :
           (req[r].pc \in {"lock", "range"} /\ req'[r].pc = "done") =>
               req'[r].resp = IF \E n \in Names : ~hist.latest[n].ok
                              THEN Unhealthy ELSE Ok

C19_Inv ==
    /\ panicked # "stop"
    /\ \A w \in Watchers : stopped[w] <=> stopChan[w] = "closed"

C19_Step ==
    /\ \A w \in Watchers : stopChan[w] = "closed" => stopChan'[w] = "closed"
    /\ \A t \in Threads :
           (/\ AtStep(t, "Stop", "stopHealthCheckWatcher")
            /\ Steps(t)
            /\ healthCheckWaiter # Nil
            /\ stopped[healthCheckWaiter]) => UNCHANGED <<watchVars, panicked>>

C19_StopOnce == []C19_Inv /\ [][C19_Step]_vars

C19_Witness ==
    /\ hist.stopCalls = 2
    /\ stopChan[1] = "closed"
    /\ stopChan[2] = "open"
    /\ panicked = "none"

\* C20: once no Stop call is in progress, Cleanup has been invoked once for
\* every Stop call that found the server running.
C20_CleanupOnEveryStop ==
    (\A t \in Threads : pc[t].op # "Stop") => hist.cleanups = hist.stopWork


\* C21: within one tick the watcher tests, in this order, whether the server
\* still runs (if not it exits without escalating), whether the gate is
\* enabled (if so it exits satisfied), and only then the deadline (past it, it
\* escalates; else it polls on).  So a watcher reaches the deadline test, and
\* escalates, only in a tick that saw the server running and the gate off.
C21_Step(w) ==
    wpc'[w] # wpc[w] =>
        /\ wpc[w] = "select" =>
                wpc'[w] \in {"checkRunning", "exitStopped"}
        /\ wpc[w] = "checkRunning" =>
                wpc'[w] = IF running THEN "checkEnabled" ELSE "exitNotRunning"
        /\ wpc[w] = "checkEnabled" =>
                wpc'[w] = IF enabled THEN "exitSatisfied" ELSE "checkDeadline"
        /\ wpc[w] = "checkDeadline" =>
                wpc'[w] = IF now > deadline[w] THEN "escalated" ELSE "select"
        /\ wpc'[w] = "escalated" => wpc[w] = "checkDeadline"
        /\ wpc'[w] = "checkDeadline" => wpc[w] = "checkEnabled"
        /\ wpc'[w] = "checkEnabled" => wpc[w] = "checkRunning"

C21_TickOrder == [][\A w \in Watchers : C21_Step(w)]_vars

\* A watcher found the gate enabled and left, although its deadline had
\* passed before the gate was enabled.
C21_Witness ==
    \E w \in Watchers : wpc[w] = "exitSatisfied" /\ w \notin hist.timely


\* C22: the deadline is computed once, when the loop starts, as the time of
\* the start plus the configured timeout; no tick changes it while the
\* watcher runs; and the watcher escalates only when the clock it reads is
\* strictly after the deadline, never at or before it.
C22_Step(w) ==
    /\ (wpc[w] = "init" /\ wpc'[w] # "init") =>
            deadline'[w] = now + config.timeout
    /\ (wpc[w] \in {"select", "checkRunning", "checkEnabled", "checkDeadline"}
            /\ wpc'[w] \in {"select", "checkRunning", "checkEnabled", "checkDeadline",
                             "escalated"}) =>
            deadline'[w] = deadline[w]
    /\ (wpc'[w] = "escalated" /\ wpc[w] # "escalated") => now > deadline[w]
    /\ (wpc[w] = "checkDeadline" /\ wpc'[w] # "checkDeadline" /\ now <= deadline[w]) =>
            wpc'[w] = "select"

C22_DeadlineFixedAndStrict ==
    /\ [](\A w \in Watchers : wpc[w] = "escalated" => now > deadline[w])
    /\ [][\A w \in Watchers : C22_Step(w)]_vars

\* With a poll interval of one time unit, a watcher took the tick at the
\* very time of its deadline and is back waiting for the next one.
C22_Witness ==
    \E w \in Watchers :
        /\ config.pollInterval = 1
        /\ wpc[w] = "select"
        /\ now = deadline[w]
        /\ nextTick[w] > now


\* The time the loop of watcher w started: its deadline less the timeout.
LoopStart(w) == deadline[w] - config.timeout

C24_LateEnableBeforeTickWins ==
    \A w \in hist.beforeRead : wpc[w] \notin {"checkDeadline", "escalated"}

\* The gate was enabled after the deadline of a watcher that was waiting
\* for its next tick, and the watcher found it enabled and returned.
C24_Witness ==
    \E w \in hist.beforeRead :
        /\ w \notin hist.timely
        /\ wpc[w] = "exitSatisfied"
        /\ panicked = "none"


\* The ways the goroutine of a watcher ends: it found the gate enabled
\* (Satisfied), it received the stop signal or found the server not running
\* (Stopped), or it escalated.
Outcomes == {"exitSatisfied", "exitStopped", "exitNotRunning", "escalated"}

\* C25: when time passes, ticks are delivered and the goroutine gets to run,
\* every started watcher ends in one of the outcomes Satisfied, Stopped or
\* Escalated, unless the process ends first by another goroutine's panic;
\* and a watcher that has an outcome keeps it for good.
C25_EndsInOneOutcome ==
    /\ \A w \in Watchers :
            wpc[w] = "init" ~> (wpc[w] \in Outcomes \/ panicked # "none")
    /\ [][\A w \in Watchers : wpc[w] \in Outcomes => wpc'[w] = wpc[w]]_vars

\* A watcher took a tick, polled on, and ended later with the process alive.
C25_Witness ==
    \E w \in Watchers :
        /\ wpc[w] \in Outcomes
        /\ panicked = "none"
        /\ now > config.pollInterval


\* C26: once the stop signal of a watcher is given, the goroutine ends at the
\* stop case of its select or, if it takes a tick instead, at the first
\* test of that tick: a tick taken after the signal never gets past the
\* test whether the server runs, so it never polls on.
C26_StoppedWatcherPollsNoMore ==
    \A w \in hist.lateTick : wpc[w] = "checkRunning"


\* C27: once the gate is enabled, a watcher whose tick has not read the gate
\* yet does not poll on: the tick it is handling, or the next one it takes,
\* ends in a return -- satisfied when the server runs -- and it neither goes
\* back to wait for another tick nor tests the deadline.  So after Enable a
\* watcher takes one more tick at most.
C27_Step(w) ==
    (enabled /\ wpc'[w] # wpc[w]) =>
        /\ wpc[w] = "select" => wpc'[w] \in {"checkRunning", "exitStopped"}
        /\ wpc[w] = "checkRunning" =>
                wpc'[w] = IF running THEN "checkEnabled" ELSE "exitNotRunning"
        /\ wpc[w] = "checkEnabled" => wpc'[w] = "exitSatisfied"
        /\ wpc'[w] = "select" => wpc[w] \in {"init", "checkDeadline"}

C28_ListenerBeforeWatcher ==
    \A g \in Watchers : wpc[g] # "unborn" => lpc[g] # "unborn"

\* C28: Start starts the watcher first and launches the listener goroutine
\* second, so the listener goroutine of a Start exists only once the watcher
\* of that Start does, and the call launching it has started the watcher.
C28_WatcherBeforeListener ==
    /\ \A g \in Watchers : lpc[g] # "unborn" => wpc[g] # "unborn"
    /\ \A t \in Threads :
            AtStep(t, "Start", "launchListener") =>
                ("startHealthCheckWatcher" \in Did(t) /\ wpc[pc[t].g] # "unborn")

\* A Start has returned after starting its watcher and launching its
\* listener goroutine.
C28_Witness ==
    /\ \E t \in Threads : pc[t] = Idle /\ ret[t] = StartNil
    /\ hist.startWork = 1
    /\ wpc[1] # "unborn"
    /\ lpc[1] # "unborn"


\* C29: the running flag tells whether the accept loop is active.  Taken at
\* rest only -- no Start or Stop call is in progress and no listener goroutine
\* is between its launch and its serve loop -- and in a process that has not
\* panicked, whenever IsRunning would return true, a listener goroutine of
\* this server has its address bound and is in its serve loop.
C29_RunningMeansServing ==
    (/\ running
     /\ panicked = "none"
     /\ \A t \in Threads : pc[t] = Idle
     /\ \A g \in Watchers : lpc[g] \notin {"listen", "serve"})
        => \E g \in Watchers : lpc[g] = "serving" /\ lsnOpen[g]


\* C30: when Shutdown returns an error, the Stop call returns that error in
\* the same step, leaving the running flag as it is and running neither a
\* second Shutdown nor Cleanup; no Cleanup is ever run for a Shutdown that
\* failed; and a Stop that finds the running flag false returns nil without
\* a shutdown or a cleanup.
C30_Step(t) ==
    /\ (AtStep(t, "Stop", "shutdownReturn") /\ Steps(t)
            /\ hist'.shutdownErrs # hist.shutdownErrs) =>
            /\ pc'[t] = Idle
            /\ ret'[t] = StopError
            /\ running' = running
            /\ hist'.shutdowns = hist.shutdowns
            /\ hist'.cleanups = hist.cleanups
    /\ (AtStep(t, "Stop", "guard") /\ Steps(t) /\ ~running) =>
            /\ pc'[t] = Idle
            /\ ret'[t] = StopNil
            /\ hist' = hist

C31_NoEscalationOnceStopReturned ==
    (hist.stopWork > 0 /\ \A t \in Threads : pc[t].op # "Stop") =>
        \A w \in Watchers : wpc[w] # "escalated"


\* C32: evaluation is fail-fast.  In the probes a request has invoked, only
\* the last can be one that returned an error, and with it the request is
\* over: no name is left to visit, the read lock is released and the
\* response is 503 "unhealthy".
C32_FailFast ==
    \A r \in Requests :
        \A i \in 1..Len(req[r].invoked) :
            ~req[r].invoked[i][2].ok =>
                /\ i = Len(req[r].invoked)
                /\ req[r].pc = "done"
                /\ req[r].todo = {}
                /\ r \notin checksReaders
                /\ req[r].resp = Unhealthy

\* Every registered probe fails, and a request has answered after invoking
\* one of them only.
C32_Witness ==
    /\ Registered(checks) = Names
    /\ \A n \in Names : ~checks[n].ok
    /\ \E r \in Requests :
           /\ req[r].pc = "done"
           /\ req[r].resp = Unhealthy
           /\ Len(req[r].invoked) = 1
           /\ ~req[r].invoked[1][2].ok


\* The names request r has invoked a probe for.
VisitedNames(r) == {req[r].invoked[i][1] : i \in 1..Len(req[r].invoked)}

\* C33: a request invokes no probe twice; and when the gate is enabled and
\* every registered probe returns nil, a request that ends its evaluation has
\* invoked the probe of every name in the registry, once each, and answers
\* 200 "ok" -- also when other requests evaluate at the same time.
C33_Step(r) ==
    (/\ req[r].pc = "range"
     /\ req'[r].pc = "done"
     /\ \A n \in Names : checks[n].ok) =>
        /\ req'[r].resp = Ok
        /\ VisitedNames(r) = {n \in Names : checks[n] # NoCheck}
        /\ Len(req[r].invoked) = Cardinality({n \in Names : checks[n] # NoCheck})
        /\ req'[r].invoked = req[r].invoked

C33_EveryProbeOncePerRequest ==
    /\ [](\A r \in Requests : Cardinality(VisitedNames(r)) = Len(req[r].invoked))
    /\ [][\A r \in Requests : C33_Step(r)]_vars

\* All requests hold the read lock together, every name is registered with
\* a probe that returns nil, and each request has invoked every probe.
C33_Witness ==
    /\ enabled
    /\ checksReaders = Requests
    /\ \A n \in Names : checks[n] # NoCheck /\ checks[n].ok
    /\ \A r \in Requests : Len(req[r].invoked) = NumNames /\ req[r].todo = {}


\* C34: the registry does not change while an evaluation is in progress: a
\* step that changes it is taken only when no request holds the read lock,
\* so throughout its evaluation a request iterates the registry as it is:
\* the names it has visited and those it has still to visit are the names
\* registered, and the probes it has invoked are the ones registered.
C34_Inv ==
    \A r \in checksReaders :
        /\ req[r].pc = "range"
        /\ VisitedNames(r) \cup req[r].todo = {n \in Names : checks[n] # NoCheck}
        /\ \A i \in 1..Len(req[r].invoked) :
               req[r].invoked[i][2] = checks[req[r].invoked[i][1]]

C35_Step ==
    /\ hist'.latest # hist.latest =>
            \E n \in Names, p \in Probes :
                /\ hist'.latest = [hist.latest EXCEPT ![n] = p]
                /\ checks' = [checks EXCEPT ![n] = p]
    /\ \A n \in Names : checks[n] # NoCheck => checks'[n] # NoCheck

C36_Step ==
    /\ (checks' # checks \/ hist'.latest # hist.latest) =>
            (enabled' = enabled /\ hist'.enableCalls = hist.enableCalls)
    /\ (enabled' # enabled \/ hist'.enableCalls # hist.enableCalls) =>
            (checks' = checks /\ hist'.latest = hist.latest)
    /\ req' # req => (enabled' = enabled /\ checks' = checks)

C36_FlagAndRegistryIndependent == [][C36_Step]_vars

\* One request was refused by the closed gate, the gate was then enabled
\* with every name registered, and another request failed on a probe.
C36_Witness ==
    /\ enabled
    /\ \A n \in Names : checks[n] # NoCheck
    /\ \E r \in Requests : req[r].pc = "done" /\ req[r].resp = NotEnabled
    /\ \E r \in Requests : req[r].pc = "done" /\ req[r].resp = Unhealthy


\* C37: the bound address is meaningful only while the server runs: once a
\* Stop has shut the listener down, cleaned up and returned, GetRunningAddress
\* does not return the address of that closed listener.
C37_NoAddressOfClosedListener ==
    (/\ hist.cleanups > 0
     /\ \A t \in Threads : pc[t].op # "Stop"
     /\ listener # Nil
     /\ ~lsnOpen[listener])
        => GetRunningAddress # lsnAddr[listener]


\* Request r has answered after a probe returned an error.
FailedOnProbe(r) ==
    /\ req[r].pc = "done"
    /\ req[r].invoked # << >>
    /\ ~req[r].invoked[Len(req[r].invoked)][2].ok

\* C38: a health response is one of (503, "not enabled"), (503, "unhealthy")
\* and (200, "ok"); every request that failed on a probe has the response
\* (503, "unhealthy"), so two requests that failed on different checks, or
\* on different probes of a check, have the same status and body.
C38_ThreeOutcomesOnly ==
    /\ \A r \in Requests :
           /\ req[r].pc = "done" => req[r].resp \in {NotEnabled, Unhealthy, Ok}
           /\ FailedOnProbe(r) => req[r].resp = Unhealthy
    /\ \A r1, r2 \in Requests :
           (FailedOnProbe(r1) /\ FailedOnProbe(r2)) => req[r1].resp = req[r2].resp

\* Two requests have failed, each on another check and another probe.
C38_Witness ==
    \E r1, r2 \in Requests :
        /\ FailedOnProbe(r1)
        /\ FailedOnProbe(r2)
        /\ req[r1].invoked[Len(req[r1].invoked)][1] # req[r2].invoked[Len(req[r2].invoked)][1]
        /\ req[r1].invoked[Len(req[r1].invoked)][2].ver
               # req[r2].invoked[Len(req[r2].invoked)][2].ver


\* The port number of the socket net.Listen bound for launch g: the port
\* asked for, or the one the OS assigned when port 0 was asked for.
ListenerPort(g) == IF laddr[g] = WildcardAddr THEN 49150 + g ELSE 80

\* The decimal numeral of a natural number.
RECURSIVE Numeral(_)
Numeral(n) ==
    IF n < 10 THEN <<Digits[n + 1]>>
    ELSE Numeral(n \div 10) \o <<Digits[(n % 10) + 1]>>

\* C39: GetRunningPort is the port component of GetRunningAddress as a
\* number: when the address is not empty it is the wildcard host, a colon
\* and the numeral of GetRunningPort, which is not 0 and is the port of the
\* listener the server holds; and GetRunningPort is 0 exactly when the
\* address is empty.
C39_PortMatchesAddress ==
    /\ GetRunningAddress # EmptyString =>
           /\ listener # Nil
           /\ GetRunningAddress = <<"[", ":", ":", "]", ":">> \o Numeral(GetRunningPort)
           /\ GetRunningPort = ListenerPort(listener)
    /\ GetRunningPort = 0 <=> GetRunningAddress = EmptyString

\* The server listens on a port the OS assigned, and GetRunningPort returns
\* that port.
C39_Witness ==
    /\ listener # Nil
    /\ lsnOpen[listener]
    /\ laddr[listener] = WildcardAddr
    /\ GetRunningPort = 49150 + listener
    /\ lpc[listener] = "serving"

====
